---- MODULE Spec2Model ----
(***************************************************************************)
(* Model of flintrock's SSH layer (flintrock/ssh.py) and of its fleet      *)
(* dispatcher (flintrock/util.py).                                         *)
(*                                                                         *)
(* One main thread calls the public entry points one after the other:     *)
(*   - run_asynchronously (util.py), which runs one coroutine per host on  *)
(*     the process-wide asyncio event loop; each coroutine establishes a   *)
(*     session with gimmeh_ssh_client and runs a command with ssh_run;     *)
(*   - get_ssh_client and ssh_check_output, the blocking (paramiko)        *)
(*     variants.                                                           *)
(* asyncio is cooperative: a task runs from one await to the next without  *)
(* interruption, and tasks only run while the main thread sits in          *)
(* loop.run_until_complete.  The blocking functions never interleave with  *)
(* the tasks.                                                              *)
(***************************************************************************)
EXTENDS Integers, Sequences, FiniteSets, TLC

\* ------------------------------------------------------------------ bounds
\* Largest number of transient connection failures a host shows in one call.
MaxRefusals == 2
\* Largest number of trailing newline characters on a remote stream.
MaxNewlines == 1
\* Largest number of fleet calls the main thread makes.
MaxCalls == 2

\* --------------------------------------------------------- program constants
\* errno.ECONNREFUSED, and another errno a socket.error can carry
ECONNREFUSED == 111
EHOSTUNREACH == 113
\* timeout=3 of both connects, and the 5 of asyncio.sleep(5) and time.sleep(5)
ConnectTimeout == 3
Backoff == 5

\* ------------------------------------------------------------- environment
Hosts == {"h1", "h2"}

NL == "\n"
\* Stream bodies the remote command can produce (before trailing newlines).
Bodies == { <<>>, <<"a">>, <<NL, "a">> }

RECURSIVE Newlines(_)
Newlines(k) == IF k = 0 THEN <<>> ELSE <<NL>> \o Newlines(k - 1)

\* Every text a remote stream can carry.
Texts == { b \o Newlines(k) : b \in Bodies, k \in 0..MaxNewlines }

\* The session of ssh_run has a terminal (term_type='xterm', line 132).  In
\* its default mode a terminal sends a carriage return before every newline
\* the command writes.
CR == "\r"

RECURSIVE pty_output(_)
pty_output(s) ==
    IF s = <<>> THEN <<>>
    ELSE (IF Head(s) = NL THEN <<CR, NL>> ELSE <<Head(s)>>) \o pty_output(Tail(s))

\* What the channel's stdout can deliver when the command copies its input to
\* its output: terminal in raw mode (the input as it is), output processing on,
\* and output processing and echo of the typed input both on (the default).
EchoDeliveries(input) ==
    { input, pty_output(input), pty_output(input) \o pty_output(input) }

\* Exit statuses of the remote command.
Statuses == {0, 1}

\* How a host's login service behaves during one call:
\*   boots  : refuses or times out for some attempts, then accepts
\*   never  : refuses or times out for ever
\*   faulty : may also reject the authentication or fail in another way
Services == {"boots", "never", "faulty"}

\* ------------------------------------------------------------ python helpers
\* str.rstrip('\n')
RECURSIVE rstrip(_)
rstrip(s) ==
    IF Len(s) > 0 /\ s[Len(s)] = NL THEN rstrip(SubSeq(s, 1, Len(s) - 1)) ELSE s

\* `needle in hay` for str
Contains(hay, needle) ==
    \E i \in 1..(Len(hay) + 1) :
        /\ i + Len(needle) - 1 <= Len(hay)
        /\ SubSeq(hay, i, i + Len(needle) - 1) = needle

\* Exceptions are records; msg is str(e).
NoExc == [type |-> "none", msg |-> <<>>]
Exc(t, m) == [type |-> t, msg |-> m]

\* Outcomes of one connection attempt: what happened at the host, the class of
\* the exception the library raises for it, and its errno attribute (0: None).
Outcome(w, c, e) == [what |-> w, cls |-> c, errno |-> e]
NoAttempt == Outcome("none", "none", 0)

\* asyncssh.connect under asyncio.wait_for(timeout=3)
AsyncAccepted    == Outcome("accepted",    "none",                 0)
AsyncRefused     == Outcome("refused",     "socket.error",         ECONNREFUSED)
AsyncTimedOut    == Outcome("timeout",     "asyncio.TimeoutError", 0)
AsyncUnreachable == Outcome("unreachable", "socket.error",         EHOSTUNREACH)
AsyncAuthReject  == Outcome("auth",        "asyncssh.Error",       0)
AsyncProtocol    == Outcome("protocol",    "asyncssh.Error",       0)

\* paramiko's SSHClient.connect(timeout=3)
SyncAccepted    == Outcome("accepted",    "none",                    0)
SyncRefused     == Outcome("refused",     "socket.error",            ECONNREFUSED)
SyncTimedOut    == Outcome("timeout",     "socket.timeout",          0)
SyncUnreachable == Outcome("unreachable", "socket.error",            EHOSTUNREACH)
SyncAuthReject  == Outcome("auth",        "AuthenticationException", 0)
SyncProtocol    == Outcome("protocol",    "SSHException",            0)
SyncBadKey      == Outcome("badkey",      "SSHException",            0)

\* Python's class hierarchy of the exceptions above (the interpreter the
\* code was written for: asyncio.TimeoutError is no OSError there).
Bases(cls) ==
    CASE cls = "socket.timeout"          -> {"socket.timeout", "socket.error"}
      [] cls = "AuthenticationException" -> {"AuthenticationException", "SSHException"}
      [] OTHER                           -> {cls}

IsInstance(o, cls) == cls \in Bases(o.cls)

\* The outcomes that are transient by nature of the host: it is still booting.
TransientWhat == {"refused", "timeout"}

\* What a host answers to one attempt of the asynchronous establisher, after
\* `failures` failed attempts.
AsyncAnswers(service, failures) ==
    LET transient == IF failures < MaxRefusals THEN {AsyncRefused, AsyncTimedOut} ELSE {}
    IN  CASE service = "boots"  -> transient \cup {AsyncAccepted}
          [] service = "never"  -> transient
          [] service = "faulty" -> transient \cup
                 {AsyncAccepted, AsyncUnreachable, AsyncAuthReject, AsyncProtocol}

\* The same for the blocking establisher.  The key file is only used once the
\* TCP connection stands, so a malformed key shows when the host accepts.
SyncAnswers(service, failures, key) ==
    LET transient == IF failures < MaxRefusals THEN {SyncRefused, SyncTimedOut} ELSE {}
        accepted  == IF key = "valid" THEN {SyncAccepted} ELSE {SyncBadKey}
        rejecting == IF failures < MaxRefusals THEN {SyncAuthReject} ELSE {}
    IN  CASE service = "boots"  -> transient \cup accepted
          [] service = "never"  -> transient
          [] service = "faulty" -> transient \cup accepted \cup rejecting \cup
                 {SyncUnreachable, SyncProtocol}

\* How long one attempt of the asynchronous establisher can last: wait_for
\* (lines 53-59) covers the whole of asyncssh.connect and cancels it at the
\* deadline; an answer that comes earlier is taken as immediate.
AsyncAttemptTimes(o) ==
    IF o.what = "timeout" THEN {ConnectTimeout} ELSE {0}

\* The same for the blocking establisher.  connect's timeout (line 99) is the
\* timeout of the TCP connect alone: what the host answers once the TCP
\* connection stands (banner, key exchange, authentication) is waited for
\* under paramiko's own, longer limits and can come after ConnectTimeout.
SyncAttemptTimes(o) ==
    CASE o.what = "timeout"                 -> {ConnectTimeout}
      [] o.what \in {"refused", "unreachable"} -> {0}
      [] OTHER                              -> {0, ConnectTimeout + 1}

\* ------------------------------------------------------------------- state
VARIABLES
    identity,    \* environment: the identity_file is "valid" or "malformed"
    mainpc,      \* where the main thread is
    loopClosed,  \* the process-wide event loop (asyncio.get_event_loop()) is closed
    req,         \* arguments of the coroutine run_asynchronously fans out
    task,        \* the per-host tasks of the current run_asynchronously call
    gathered,    \* the future of asyncio.gather(*tasks)
    sessions,    \* hosts with an open asyncssh connection
    history,     \* outcomes of the run_asynchronously calls made so far
    sync         \* frame of the blocking functions (get_ssh_client, ssh_check_output)

vars == <<identity, mainpc, loopClosed, req, task, gathered, sessions, history, sync>>

\* Arguments of one fleet call: ssh_run's check, timeout (given or None) and
\* input (given or None), and gimmeh_ssh_client's print_status.
NoInput == [given |-> FALSE, text |-> <<>>]
Inputs == { NoInput, [given |-> TRUE, text |-> <<"a", NL>>] }
\* The two arguments that only add an observable effect (input, print_status)
\* are switched together, which keeps the set small.
Requests ==
    { r \in [check : BOOLEAN, timeout : BOOLEAN, input : Inputs, print_status : BOOLEAN] :
        r.print_status = r.input.given }
NoRequest == [check |-> TRUE, timeout |-> FALSE, input |-> NoInput, print_status |-> FALSE]

\* exit_status before the channel has one
NoStatus == 0 - 1

\* One operation on one host: the establisher's loop followed by the
\* executor's locals.  service, attempts, sleeps and last belong to the
\* establisher's call and are dropped when the executor goes on.
FreshOp == [
    pc            |-> "absent",
    host          |-> "none",
    service       |-> "none",     \* how the host's login service behaves
    print_status  |-> FALSE,
    attempts      |-> 0,          \* connection attempts made
    sleeps        |-> 0,          \* backoff sleeps begun
    waited        |-> 0,          \* time spent in backoff sleeps
    elapsed       |-> 0,          \* how long the latest attempt lasted
    last          |-> NoAttempt,  \* outcome of the latest attempt
    printed       |-> 0,          \* "SSH online." lines printed
    stdin         |-> "unused",   \* "unused" or "eof" (input written, end of input sent)
    rawout        |-> <<>>,       \* what the channel delivered on stdout
    rawerr        |-> <<>>,       \* what the channel delivered on stderr
    stdout_output |-> <<>>,
    stderr_output |-> <<>>,
    exit_status   |-> NoStatus,
    exc           |-> NoExc,      \* exception raised by the operation
    failed_nth    |-> 0,          \* n when the task was the n-th of its call to fail
    log           |-> <<>>,       \* what the operation did with its session, in order
    ret           |-> <<>> ]      \* value returned by the executor

Pending == [state |-> "pending", exc |-> NoExc]

TypeOK ==
    /\ identity \in {"valid", "malformed"}
    /\ mainpc \in {"idle", "run_until_complete", "get_ssh_client", "interrupted"}
    /\ loopClosed \in BOOLEAN
    /\ req \in Requests
    /\ DOMAIN task = Hosts
    /\ gathered.state \in {"pending", "result", "exception"}
    /\ sessions \subseteq Hosts
    /\ Len(history) <= MaxCalls

Init ==
    /\ identity \in {"valid", "malformed"}
    /\ mainpc = "idle"
    /\ loopClosed = FALSE
    /\ req = NoRequest
    /\ task = [h \in Hosts |-> FreshOp]
    /\ gathered = Pending
    /\ sessions = {}
    /\ history = <<>>
    /\ sync = FreshOp

\* ------------------------------------------------- ssh.py: the establishers
\* Mutant of gimmeh_ssh_client_except: the asyncio.TimeoutError clause is lost,
\* so an attempt that times out propagates.
gimmeh_ssh_client_except_no_timeout_clause(o) ==
    IF o.what = "accepted" THEN "break"
    ELSE IF IsInstance(o, "socket.error")
         THEN (IF o.errno # ECONNREFUSED THEN "raise" ELSE "sleep")
    ELSE "raise"

\* Mutant of gimmeh_ssh_client_except: the errno test is lost, so every
\* socket.error is retried.
gimmeh_ssh_client_except_no_errno_test(o) ==
    IF o.what = "accepted" THEN "break"
    ELSE IF IsInstance(o, "socket.error") THEN "sleep"
    ELSE IF IsInstance(o, "asyncio.TimeoutError") THEN "sleep"
    ELSE "raise"

\* gimmeh_ssh_client, lines 52-69: what the try statement does with the outcome
\* of one attempt: "break" (return the client), "sleep" (back off and retry)
\* or "raise".
gimmeh_ssh_client_except(o) ==
    IF o.what = "accepted" THEN "break"
    ELSE IF IsInstance(o, "socket.error")
         THEN (IF o.errno # ECONNREFUSED THEN "raise" ELSE "sleep")
    ELSE IF IsInstance(o, "asyncio.TimeoutError") THEN "sleep"
    ELSE "raise"

\* get_ssh_client, lines 93-114: the same for the blocking establisher.
get_ssh_client_except(o) ==
    IF o.what = "accepted" THEN "break"
    ELSE IF IsInstance(o, "socket.timeout") THEN "sleep"
    ELSE IF IsInstance(o, "socket.error")
         THEN (IF o.errno # ECONNREFUSED THEN "raise" ELSE "sleep")
    ELSE IF IsInstance(o, "AuthenticationException") THEN "sleep"
    ELSE "raise"

\* Mutant of Attempt: the status line is printed at every attempt.
Attempt_prints_each_time(op, o, how) ==
    [op EXCEPT
        !.attempts = @ + 1,
        !.last     = o,
        !.printed  = IF op.print_status THEN @ + 1 ELSE @,
        !.sleeps   = IF how = "sleep" THEN @ + 1 ELSE @,
        !.waited   = IF how = "sleep" THEN @ + Backoff ELSE @,
        !.exc      = IF how = "raise" THEN Exc(o.cls, <<>>) ELSE @,
        !.log      = IF how = "break" THEN Append(@, "established") ELSE @,
        !.pc       = CASE how = "break" -> "connected"
                       [] how = "sleep" -> "sleeping"
                       [] how = "raise" -> "failed"]

\* One pass through the establisher's loop body, on the record of the operation.
\* `how` is what the except clauses decided.
Attempt(op, o, how) ==
    [op EXCEPT
        !.attempts = @ + 1,
        !.last     = o,
        !.printed  = IF how = "break" /\ op.print_status THEN @ + 1 ELSE @,
        !.sleeps   = IF how = "sleep" THEN @ + 1 ELSE @,
        !.waited   = IF how = "sleep" THEN @ + Backoff ELSE @,
        !.exc      = IF how = "raise" THEN Exc(o.cls, <<>>) ELSE @,
        !.log      = IF how = "break" THEN Append(@, "established") ELSE @,
        !.pc       = CASE how = "break" -> "connected"
                       [] how = "sleep" -> "sleeping"
                       [] how = "raise" -> "failed"]

\* The establisher's call is over and the executor goes on with the client.
Forget(op) ==
    [op EXCEPT !.service = "none", !.attempts = 0, !.sleeps = 0, !.waited = 0,
               !.elapsed = 0, !.last = NoAttempt]

\* -------------------------------------------------- ssh.py: the executors
\* ssh_run, lines 135-137: the input is written and closed when one is given.
ssh_run_input_events(input) ==
    IF input.given THEN <<"input", "eof">> ELSE <<>>

\* Mutant of ssh_run_tail_events: the exit status is taken before stderr is read.
ssh_run_tail_events_status_first == <<"status", "stderr">>

\* ssh_run, lines 140-141: stderr is read to its end, then the exit status is
\* taken from the channel.
ssh_run_tail_events == <<"stderr", "status">>

\* ssh_check_output, lines 163-165: both reads, then recv_exit_status.
ssh_check_output_events == <<"stdout", "stderr", "status">>

\* Mutant of ssh_run_result: the error carries stdout instead of stderr.
ssh_run_result_stdout_in_error(check, stdout_output, stderr_output, exit_status) ==
    IF check /\ exit_status # 0
    THEN [exc |-> Exc("SSHError", stdout_output), ret |-> <<>>]
    ELSE [exc |-> NoExc, ret |-> stdout_output]

\* ssh_run, lines 143-148: raise SSHError(stderr_output) or return stdout_output.
ssh_run_result(check, stdout_output, stderr_output, exit_status) ==
    IF check /\ exit_status # 0
    THEN [exc |-> Exc("SSHError", stderr_output), ret |-> <<>>]
    ELSE [exc |-> NoExc, ret |-> stdout_output]

\* ssh_check_output, lines 167-174.
ssh_check_output_result(stdout_output, stderr_output, exit_status) ==
    IF exit_status # 0
    THEN [exc |-> Exc("SSHError", stdout_output \o stderr_output), ret |-> <<>>]
    ELSE [exc |-> NoExc, ret |-> stdout_output]

\* --------------------------------------------- util.py: run_asynchronously
\* The hosts in the order of the list run_asynchronously is given (line 38).
HostList == <<"h1", "h2">>

\* Mutant of GatherDone: the exception is that of the first failed task in
\* the order of the host list, looked up again at every step.
GatherDone_list_order(g, tasks, h) ==
    IF \E i \in 1..Len(HostList) : tasks[HostList[i]].pc = "failed"
    THEN LET i == CHOOSE i \in 1..Len(HostList) :
                     /\ tasks[HostList[i]].pc = "failed"
                     /\ \A j \in 1..(i - 1) : tasks[HostList[j]].pc # "failed"
         IN  [state |-> "exception", exc |-> tasks[HostList[i]].exc]
    ELSE IF \A k \in Hosts : tasks[k].pc = "done" THEN [state |-> "result", exc |-> NoExc]
    ELSE g

\* asyncio.gather(*tasks), line 44: the first exception of a child becomes the
\* gather future's exception at once; it gets its result when every child has one.
GatherDone(g, tasks, h) ==
    IF g.state # "pending" THEN g
    ELSE IF tasks[h].pc = "failed" THEN [state |-> "exception", exc |-> tasks[h].exc]
    ELSE IF \A k \in Hosts : tasks[k].pc = "done" THEN [state |-> "result", exc |-> NoExc]
    ELSE g

\* What a call hands back to its caller.  run_asynchronously has no return
\* statement: it returns None and drops the list gather collected.
NoValue == [isNone |-> TRUE, entries |-> <<>>]

\* Lines 33-41: get the process-wide loop and schedule one task per host.  On a
\* closed loop ensure_future raises RuntimeError("Event loop is closed") at
\* the first host, outside the try statement.  The arguments bound in
\* partial_func are r.  The frame of the previous top-level call is gone.
run_asynchronously_begin(r, sv) ==
    /\ mainpc = "idle"
    /\ Len(history) < MaxCalls
    /\ sv \in [Hosts -> Services]
    /\ req' = r
    /\ sync' = FreshOp
    /\ gathered' = Pending
    /\ IF loopClosed
       THEN /\ task' = [h \in Hosts |-> FreshOp]
            /\ history' = Append(history,
                   [req |-> r, kind |-> "raised", exc |-> Exc("RuntimeError", <<>>),
                    value |-> NoValue])
            /\ mainpc' = "idle"
       ELSE /\ task' = [h \in Hosts |->
                   [FreshOp EXCEPT !.pc = "created", !.host = h, !.service = sv[h],
                                   !.print_status = r.print_status]]
            /\ history' = history
            /\ mainpc' = "run_until_complete"
    /\ UNCHANGED <<identity, loopClosed, sessions>>

\* Lines 43-53: run_until_complete ends as soon as the gather future is done;
\* an SSHError becomes NodeError(str(e)), any other exception passes through,
\* and the loop is closed in every case.  Without exception the function
\* returns None.
run_asynchronously_outcome(g) ==
    IF g.state = "exception"
    THEN IF g.exc.type = "SSHError"
         THEN [kind |-> "raised", exc |-> Exc("NodeError", g.exc.msg), value |-> NoValue]
         ELSE [kind |-> "raised", exc |-> g.exc, value |-> NoValue]
    ELSE [kind |-> "returned", exc |-> NoExc, value |-> NoValue]

run_asynchronously_end ==
    /\ mainpc = "run_until_complete"
    /\ gathered.state # "pending"
    /\ LET out == run_asynchronously_outcome(gathered)
       IN  history' = Append(history, [req |-> req, kind |-> out.kind, exc |-> out.exc,
                                       value |-> out.value])
    /\ loopClosed' = TRUE
    /\ mainpc' = "idle"
    /\ UNCHANGED <<identity, req, task, gathered, sessions, sync>>

\* Lines 43-53 when KeyboardInterrupt arrives while run_until_complete waits:
\* no except clause matches it, the finally clause closes the loop, and the
\* interrupt goes on to the caller, which makes no further call.  No task is
\* cancelled (the TODO of line 52).
keyboard_interrupt ==
    /\ mainpc = "run_until_complete"
    /\ history' = Append(history,
           [req |-> req, kind |-> "raised", exc |-> Exc("KeyboardInterrupt", <<>>),
            value |-> NoValue])
    /\ loopClosed' = TRUE
    /\ mainpc' = "interrupted"
    /\ UNCHANGED <<identity, req, task, gathered, sessions, sync>>

\* ------------------------------------------------ the per-host coroutine
\* Tasks run only while the main thread is inside loop.run_until_complete.
LoopRuns == mainpc = "run_until_complete" /\ ~loopClosed

\* Mutant of BlocksLoop: the establisher connects and sleeps with blocking
\* calls, as get_ssh_client does.
BlocksLoop_blocking_waits(op) == op.pc \in {"connecting", "sleeping"}

\* gimmeh_ssh_client, lines 53-69: does the operation hold the thread of the
\* event loop while it waits?  The connect (line 53) and both sleeps (lines 67
\* and 69) are awaited, so the task is suspended and the loop is free.
BlocksLoop(op) == FALSE

\* The event loop can run a step of host h's task.
Runnable(h) == LoopRuns /\ \A k \in Hosts \ {h} : ~BlocksLoop(task[k])

\* A task's step ends at its next await; when the task finishes, gather sees it.
TaskTo(h, op) ==
    /\ task' = [task EXCEPT ![h] =
           IF op.pc = "failed"
           THEN [op EXCEPT !.failed_nth =
                    1 + Cardinality({k \in Hosts : task[k].pc = "failed"})]
           ELSE op]
    /\ gathered' = GatherDone(gathered, task', h)
    /\ UNCHANGED <<identity, mainpc, loopClosed, req, history, sync>>

\* gimmeh_ssh_client, line 50, up to the first await of line 53.
gimmeh_ssh_client_begin(h) ==
    /\ Runnable(h)
    /\ task[h].pc = "created"
    /\ IF identity = "malformed"
       THEN TaskTo(h, [task[h] EXCEPT !.pc = "failed",
                                      !.exc = Exc("asyncssh.KeyImportError", <<>>)])
       ELSE TaskTo(h, [task[h] EXCEPT !.pc = "connecting"])
    /\ UNCHANGED sessions

\* gimmeh_ssh_client, lines 53-69: one attempt ends.  With a client the
\* coroutine goes on into ssh_run and awaits open_session (line 129).
gimmeh_ssh_client_attempt(h) ==
    /\ Runnable(h)
    /\ task[h].pc = "connecting"
    /\ \E o \in AsyncAnswers(task[h].service, task[h].attempts) :
       \E t \in AsyncAttemptTimes(o) :
         LET how == gimmeh_ssh_client_except(o)
             op  == [Attempt(task[h], o, how) EXCEPT !.elapsed = t]
         IN  IF how = "break"
             THEN /\ TaskTo(h, [op EXCEPT !.pc = "opening"])
                  /\ sessions' = sessions \cup {h}
             ELSE /\ TaskTo(h, op)
                  /\ UNCHANGED sessions

\* await asyncio.sleep(5) is over (lines 67, 69): next pass of the loop.
gimmeh_ssh_client_wake(h) ==
    /\ Runnable(h)
    /\ task[h].pc = "sleeping"
    /\ TaskTo(h, [task[h] EXCEPT !.pc = "connecting"])
    /\ UNCHANGED sessions

\* ssh_run, lines 129-137: open_session under wait_for(timeout): it opens, and
\* the input is written and closed; or it stalls, which wait_for turns into
\* asyncio.TimeoutError when a timeout was given and waits out otherwise.
ssh_run_open(h) ==
    /\ Runnable(h)
    /\ task[h].pc = "opening"
    /\ \/ TaskTo(h, [Forget(task[h]) EXCEPT
              !.stdin = IF req.input.given THEN "eof" ELSE "unused",
              !.log   = @ \o ssh_run_input_events(req.input),
              !.pc    = "reading_out"])
       \/ IF req.timeout
          THEN TaskTo(h, [Forget(task[h]) EXCEPT
                   !.pc = "ran", !.exc = Exc("asyncio.TimeoutError", <<>>)])
          ELSE TaskTo(h, [Forget(task[h]) EXCEPT !.pc = "hung_open"])
    /\ UNCHANGED sessions

\* ssh_run, line 139: stdout is read to its end.  The channel delivers any
\* text, and with an input also what a command delivers that copies it.
ssh_run_stdout(h) ==
    /\ Runnable(h)
    /\ task[h].pc = "reading_out"
    /\ \E s \in Texts \cup (IF req.input.given THEN EchoDeliveries(req.input.text) ELSE {}) :
         TaskTo(h, [task[h] EXCEPT !.rawout = s, !.stdout_output = rstrip(s),
                                   !.log = Append(@, "stdout"),
                                   !.pc = "reading_err"])
    /\ UNCHANGED sessions

\* ssh_run, lines 140-148: stderr is read to its end, the exit status is taken
\* from the channel, and the function raises or returns.
ssh_run_stderr(h) ==
    /\ Runnable(h)
    /\ task[h].pc = "reading_err"
    /\ \E s \in Texts, st \in Statuses :
         LET res == ssh_run_result(req.check, task[h].stdout_output, rstrip(s), st)
         IN  TaskTo(h, [task[h] EXCEPT !.rawerr = s, !.stderr_output = rstrip(s),
                                       !.exit_status = st,
                                       !.exc = res.exc, !.ret = res.ret,
                                       !.log = @ \o ssh_run_tail_events,
                                       !.pc = "ran"])
    /\ UNCHANGED sessions

\* ssh_run, lines 139-140: the remote command never closes its streams; the
\* reads carry no timeout, so the coroutine stays in them.
ssh_run_stall(h) ==
    /\ Runnable(h)
    /\ task[h].pc \in {"reading_out", "reading_err"}
    /\ TaskTo(h, [task[h] EXCEPT !.pc = "hung_read"])
    /\ UNCHANGED sessions

\* The single-host operation around the two: it releases the session when
\* ssh_run has returned or raised, and ends as ssh_run ended.  The channel and
\* ssh_run's locals are gone with it.
run_on_host_release(h) ==
    /\ Runnable(h)
    /\ task[h].pc = "ran"
    /\ sessions' = sessions \ {h}
    /\ TaskTo(h, [task[h] EXCEPT
           !.pc = IF task[h].exc = NoExc THEN "done" ELSE "failed",
           !.rawout = <<>>, !.rawerr = <<>>,
           !.stdout_output = <<>>, !.stderr_output = <<>>,
           !.exit_status = NoStatus,
           !.log = Append(@, "released")])

\* ------------------------------------------------ the blocking functions
\* get_ssh_client is called, lines 87-92.  The blocking functions share no
\* state with the event loop; the caller modelled here uses them before its
\* fleet calls.
get_ssh_client_begin(h, s, ps) ==
    /\ mainpc = "idle"
    /\ history = <<>>
    /\ sync' = [FreshOp EXCEPT !.pc = "connecting", !.host = h, !.service = s,
                               !.print_status = ps]
    /\ task' = [k \in Hosts |-> FreshOp]
    /\ gathered' = Pending
    /\ req' = NoRequest
    /\ mainpc' = "get_ssh_client"
    /\ UNCHANGED <<identity, loopClosed, sessions, history>>

\* get_ssh_client, lines 93-116: one attempt; it returns the client, sleeps
\* or raises.
get_ssh_client_attempt ==
    /\ mainpc = "get_ssh_client"
    /\ sync.pc = "connecting"
    /\ \E o \in SyncAnswers(sync.service, sync.attempts, identity) :
       \E t \in SyncAttemptTimes(o) :
         LET how == get_ssh_client_except(o)
         IN  /\ sync' = [Attempt(sync, o, how) EXCEPT !.elapsed = t]
             /\ mainpc' = IF how = "sleep" THEN "get_ssh_client" ELSE "idle"
    /\ UNCHANGED <<identity, loopClosed, req, task, gathered, sessions, history>>

\* time.sleep(5) is over (lines 106, 110, 114).
get_ssh_client_wake ==
    /\ mainpc = "get_ssh_client"
    /\ sync.pc = "sleeping"
    /\ sync' = [sync EXCEPT !.pc = "connecting"]
    /\ UNCHANGED <<identity, mainpc, loopClosed, req, task, gathered, sessions, history>>

\* ssh_check_output, lines 158-174, on the client get_ssh_client returned.
ssh_check_output ==
    /\ mainpc = "idle"
    /\ sync.pc \in {"connected", "ran"}
    /\ \E so \in Texts, se \in Texts, st \in Statuses :
         LET res == ssh_check_output_result(rstrip(so), rstrip(se), st)
         IN  sync' = [Forget(sync) EXCEPT !.rawout = so, !.rawerr = se,
                                  !.stdout_output = rstrip(so),
                                  !.stderr_output = rstrip(se),
                                  !.exit_status = st,
                                  !.exc = res.exc, !.ret = res.ret,
                                  !.log = <<"established">> \o ssh_check_output_events,
                                  !.pc = "ran"]
    /\ UNCHANGED <<identity, mainpc, loopClosed, req, task, gathered, sessions, history>>

\* ------------------------------------------------------------ specification
Next ==
    \/ \E r \in Requests, sv \in [Hosts -> Services] : run_asynchronously_begin(r, sv)
    \/ run_asynchronously_end
    \/ \E h \in Hosts : gimmeh_ssh_client_begin(h)
    \/ \E h \in Hosts : gimmeh_ssh_client_attempt(h)
    \/ \E h \in Hosts : gimmeh_ssh_client_wake(h)
    \/ \E h \in Hosts : ssh_run_open(h)
    \/ \E h \in Hosts : ssh_run_stdout(h)
    \/ \E h \in Hosts : ssh_run_stderr(h)
    \/ \E h \in Hosts : ssh_run_stall(h)
    \/ \E h \in Hosts : run_on_host_release(h)
    \/ \E h \in Hosts, s \in Services, ps \in BOOLEAN : get_ssh_client_begin(h, s, ps)
    \/ get_ssh_client_attempt
    \/ get_ssh_client_wake
    \/ ssh_check_output

Spec == Init /\ [][Next]_vars

\* Scheduling: the event loop runs every task that is ready, and time.sleep
\* and a blocking connect return; nothing is assumed about the caller.
TaskStep(h) ==
    \/ gimmeh_ssh_client_begin(h)
    \/ gimmeh_ssh_client_attempt(h)
    \/ gimmeh_ssh_client_wake(h)
    \/ ssh_run_open(h)
    \/ ssh_run_stdout(h)
    \/ ssh_run_stderr(h)
    \/ ssh_run_stall(h)
    \/ run_on_host_release(h)

FairSpec ==
    /\ Spec
    /\ \A h \in Hosts : WF_vars(TaskStep(h))
    /\ WF_vars(get_ssh_client_attempt \/ get_ssh_client_wake)

\* The program with a user who may interrupt a running fleet call.
InterruptNext == Next \/ keyboard_interrupt

InterruptSpec == Init /\ [][InterruptNext]_vars

\* A fleet call on a fleet with a host that never accepts, made by a caller
\* that uses nothing else.
ProgressNext ==
    \/ \E r \in Requests, sv \in {f \in [Hosts -> Services] : \E k \in Hosts : f[k] = "never"} :
          run_asynchronously_begin(r, sv)
    \/ run_asynchronously_end
    \/ \E h \in Hosts : TaskStep(h)

ProgressSpec ==
    /\ Init
    /\ [][ProgressNext]_vars
    /\ \A h \in Hosts : WF_vars(TaskStep(h))

\* The establishers alone: the fleet call up to the point where each task has
\* its client (or has failed), and get_ssh_client.
EstablisherStep(h) ==
    \/ gimmeh_ssh_client_begin(h)
    \/ gimmeh_ssh_client_attempt(h)
    \/ gimmeh_ssh_client_wake(h)

EstablisherNext ==
    \/ \E r \in Requests, sv \in [Hosts -> Services] : run_asynchronously_begin(r, sv)
    \/ run_asynchronously_end
    \/ \E h \in Hosts : EstablisherStep(h)
    \/ \E h \in Hosts, s \in Services, ps \in BOOLEAN : get_ssh_client_begin(h, s, ps)
    \/ get_ssh_client_attempt
    \/ get_ssh_client_wake

EstablisherSpec ==
    /\ Init
    /\ [][EstablisherNext]_vars
    /\ \A h \in Hosts : WF_vars(EstablisherStep(h))
    /\ WF_vars(get_ssh_client_attempt \/ get_ssh_client_wake)

\* ------------------------------------------------------------------ claims
AllOps == { task[h] : h \in Hosts } \cup {sync}

\* A run_asynchronously call has ended and its frame is still there.
FleetCallEnded == mainpc = "idle" /\ history # <<>>
LastCall == history[Len(history)]

\* C1: when run_asynchronously returns or raises, every task it launched has
\* finished or failed; none is still pending.
C1_AllTasksTerminalAtEnd ==
    FleetCallEnded => \A h \in Hosts : task[h].pc \in {"absent", "done", "failed"}

\* C2: when a per-host task of a fleet call has failed, the call raises
\* NodeError, whatever the task's exception was.
C2_AnyFailureRaisesNodeError ==
    (FleetCallEnded /\ \E h \in Hosts : task[h].pc = "failed")
        => (LastCall.kind = "raised" /\ LastCall.exc.type = "NodeError")

\* C3: refusals and timeouts never make an establisher raise; with a host that
\* never accepts it neither returns nor raises; with a host that accepts after
\* finitely many refusals it gets its session (the asynchronous one as long
\* as the event loop runs its task).
Established(op) ==
    op.pc \notin {"absent", "created", "connecting", "sleeping", "failed"}

C3_NoRaiseOnRefusal ==
    \A op \in AllOps :
        /\ op.last.what \in TransientWhat => (op.exc = NoExc /\ op.pc # "failed")
        /\ (op.service = "never" /\ identity = "valid")
               => op.pc \in {"created", "connecting", "sleeping"}

C3_RetriesUntilAccepted ==
    /\ []C3_NoRaiseOnRefusal
    /\ \A h \in Hosts :
         (task[h].service = "boots" /\ identity = "valid")
             ~> (Established(task[h]) \/ ~LoopRuns)
    /\ (sync.service = "boots" /\ identity = "valid") ~> (sync.pc = "connected")

C3_Witness ==
    \E h \in Hosts :
        /\ task[h].service = "boots"
        /\ task[h].pc = "opening"
        /\ task[h].attempts = MaxRefusals + 1
        /\ task[h].sleeps = MaxRefusals
        /\ h \in sessions

\* C4: an authentication rejection is followed by a backoff and a new attempt
\* and is never raised, by either establisher.
C4_AuthRejectionRetried ==
    \A op \in AllOps :
        op.last.what = "auth"
            => (op.pc \in {"sleeping", "connecting"} /\ op.exc = NoExc)

\* C5: a connection error outside the transient classes is raised at once:
\* the establisher has failed with that very error, every earlier attempt was
\* followed by one sleep and this one by none; a malformed key read by
\* gimmeh_ssh_client is raised before any attempt.
FatalWhat == {"unreachable", "protocol", "badkey"}

C5_FatalErrorRaisedAtOnce ==
    \A op \in AllOps :
        /\ op.last.what \in FatalWhat
               => /\ op.pc = "failed"
                  /\ op.exc.type = op.last.cls
                  /\ op.sleeps = op.attempts - 1
        /\ op.exc.type = "asyncssh.KeyImportError"
               => (op.pc = "failed" /\ op.attempts = 0 /\ op.sleeps = 0)

C5_Witness ==
    /\ \E h \in Hosts :
        /\ task[h].pc = "failed"
        /\ task[h].last.what = "unreachable"
        /\ task[h].attempts = MaxRefusals + 1
    /\ \E h \in Hosts :
        /\ task[h].pc = "failed"
        /\ task[h].last.what = "protocol"

\* C6: ssh_run with check=False and a non-zero exit status raises nothing and
\* returns a result that carries the exit status: two commands that ended with
\* different statuses never return the same result.
Unchecked(op) == op.pc = "ran" /\ op.exit_status # NoStatus /\ ~req.check

C6_ResultCarriesExitStatus ==
    \A h \in Hosts :
        (Unchecked(task[h]) /\ task[h].exit_status # 0)
            => /\ task[h].exc = NoExc
               /\ \A k \in Hosts :
                    (Unchecked(task[k]) /\ task[k].exit_status # task[h].exit_status)
                        => task[k].ret # task[h].ret

\* C7: an executor that checks (ssh_run with check=True, ssh_check_output) and
\* sees a non-zero exit status raises SSHError with the captured stderr in its
\* message; with exit status 0 no executor raises SSHError.
Executed(op) == op.pc = "ran" /\ op.exit_status # NoStatus

C7_ErrorCarriesStderr ==
    /\ \A h \in Hosts :
         Executed(task[h]) =>
            /\ (req.check /\ task[h].exit_status # 0)
                   => /\ task[h].exc.type = "SSHError"
                      /\ Contains(task[h].exc.msg, task[h].stderr_output)
            /\ task[h].exit_status = 0 => task[h].exc = NoExc
    /\ Executed(sync) =>
            /\ sync.exit_status # 0
                   => /\ sync.exc.type = "SSHError"
                      /\ Contains(sync.exc.msg, sync.stderr_output)
            /\ sync.exit_status = 0 => sync.exc = NoExc

C7_Witness ==
    \E h \in Hosts :
        /\ Executed(task[h])
        /\ req.check
        /\ task[h].exit_status # 0
        /\ task[h].rawerr = <<NL, "a", NL>>
        /\ task[h].stdout_output = <<"a">>
        /\ task[h].exc = Exc("SSHError", <<NL, "a">>)

\* C8: with a timeout given, a command that does not complete is aborted with
\* a timeout error wherever it stalls: no task stays waiting on it.
C8_TimeoutBoundsTheCommand ==
    \A h \in Hosts :
        req.timeout => task[h].pc \notin {"hung_open", "hung_read"}

\* C9: after a fleet call, returned or raised, no session is open.
C9_NoSessionLeftOpen ==
    FleetCallEnded => sessions = {}

\* C10: a second fleet call with the same arguments after a first one that
\* succeeded succeeds too, with the same outcome.
C10_SecondCallSucceeds ==
    (Len(history) >= 2 /\ history[1].kind = "returned" /\ history[2].req = history[1].req)
        => (history[2].kind = "returned" /\ history[2].exc = history[1].exc)

\* C11: when every per-host operation has succeeded, run_asynchronously
\* returns a mapping with exactly one entry per requested host, each entry
\* that host's own result.
C11_ReturnsOneOutcomePerHost ==
    (FleetCallEnded /\ \A h \in Hosts : task[h].pc = "done")
        => /\ LastCall.kind = "returned"
           /\ ~LastCall.value.isNone
           /\ DOMAIN LastCall.value.entries = Hosts
           /\ \A h \in Hosts : LastCall.value.entries[h] = task[h].ret

\* The error run_asynchronously raises when the failure of host k is the one
\* gather reports.
RaisedFor(k) ==
    run_asynchronously_outcome([state |-> "exception", exc |-> task[k].exc]).exc

\* C12: the NodeError tells which host failed: no other failing host of the
\* fleet would have given the same error, also with the same error text.
C12_ErrorIdentifiesHost ==
    (FleetCallEnded /\ LastCall.exc.type = "NodeError")
        => \A h, k \in Hosts :
              (h # k /\ task[h].failed_nth = 1 /\ task[k].pc = "failed")
                  => RaisedFor(k) # LastCall.exc

\* C13: after a fleet call that was interrupted, no task of the call is still
\* pending and no session is open.
C13_InterruptCancelsEveryTask ==
    mainpc = "interrupted"
        => /\ \A h \in Hosts : task[h].pc \in {"absent", "done", "failed", "cancelled"}
           /\ sessions = {}

\* C14: within one host's operation the steps come in the order session
\* established, input written and closed, both streams read to their end,
\* exit status taken, session released; the exit status is never taken before
\* both streams are read, in ssh_run and in ssh_check_output.
Rank(e) ==
    CASE e = "established" -> 1
      [] e = "input"       -> 2
      [] e = "eof"         -> 3
      [] e = "stdout"      -> 4
      [] e = "stderr"      -> 4
      [] e = "status"      -> 5
      [] e = "released"    -> 6

Did(op, e) == \E i \in 1..Len(op.log) : op.log[i] = e

InOrder(op) ==
    /\ \A i, j \in 1..Len(op.log) :
          i < j => /\ Rank(op.log[i]) <= Rank(op.log[j])
                   /\ op.log[i] # op.log[j]
    /\ op.log # <<>> => op.log[1] = "established"
    /\ Did(op, "status") => (Did(op, "stdout") /\ Did(op, "stderr"))
    /\ Did(op, "eof") => Did(op, "input")

C14_StepsInOrder ==
    /\ \A op \in AllOps : InOrder(op)
    /\ \A h \in Hosts :
          (Did(task[h], "stdout") /\ req.input.given) => Did(task[h], "eof")

C14_Witness ==
    \E h \in Hosts :
        task[h].log = <<"established", "input", "eof", "stdout", "stderr",
                        "status", "released">>

\* C15: a host that stays in its connect-retry loop for ever does not stop
\* another host: under fair scheduling of the tasks, a host whose service comes
\* up gets through its operation (it ends, or it waits on its own remote
\* command), whatever the other host's establisher is doing.
OwnEnd == {"done", "failed", "hung_open", "hung_read"}

C15_BackoffBlocksNobody ==
    \A h, k \in Hosts :
        (/\ h # k
         /\ identity = "valid"
         /\ task[h].pc = "created" /\ task[h].service = "boots"
         /\ task[k].service = "never")
            ~> (task[h].pc \in OwnEnd)

C15_Witness ==
    \E h, k \in Hosts :
        /\ LoopRuns
        /\ task[h].pc = "done"
        /\ task[k].service = "never"
        /\ task[k].pc = "sleeping"
        /\ task[k].sleeps = MaxRefusals

\* C16: an establisher sleeps once, for the fixed backoff, after each
\* transient failure and not after the attempt that succeeds: a connection
\* obtained after N failed attempts comes after N sleeps and a wait of N times
\* the backoff; and no attempt lasts longer than the connect timeout.
C16_OneBackoffPerFailure ==
    \A op \in AllOps :
        /\ op.waited = op.sleeps * Backoff
        /\ op.pc = "sleeping" => op.sleeps = op.attempts
        /\ op.last.what = "accepted" => op.sleeps = op.attempts - 1
        /\ op.elapsed <= ConnectTimeout

\* C17: when several hosts fail, the error of the fleet call is the one made
\* from the failure that happened first in execution order, whatever the
\* hosts' places in the list, and a later failure does not replace it.
FirstFailed(h) == task[h].failed_nth = 1

C17_FirstObservedFailureWins ==
    \A h \in Hosts :
        FirstFailed(h) =>
            /\ gathered = [state |-> "exception", exc |-> task[h].exc]
            /\ FleetCallEnded => (LastCall.kind = "raised" /\ LastCall.exc = RaisedFor(h))

C17_Witness ==
    /\ FleetCallEnded
    /\ FirstFailed(HostList[2])
    /\ task[HostList[1]].failed_nth = 2
    /\ task[HostList[1]].exc.type = "SSHError"
    /\ task[HostList[2]].exc.type = "SSHError"
    /\ task[HostList[1]].exc.msg # task[HostList[2]].exc.msg
    /\ LastCall.exc = Exc("NodeError", task[HostList[2]].exc.msg)

\* C18: with print_status an establisher prints "SSH online." once, at the
\* attempt that succeeds, and nothing at a failed attempt, however many
\* attempts came before; without print_status it prints nothing.
C18_OnlinePrintedOnce ==
    \A op \in AllOps :
        /\ op.printed = IF op.print_status /\ Did(op, "established") THEN 1 ELSE 0
        /\ op.pc \in {"sleeping", "connecting"} => op.printed = 0

C18_Witness ==
    /\ \E h \in Hosts :
        /\ task[h].print_status
        /\ task[h].last.what = "accepted"
        /\ task[h].sleeps = MaxRefusals
        /\ task[h].printed = 1
    /\ \E h \in Hosts :
        /\ task[h].print_status
        /\ task[h].pc = "sleeping"
        /\ task[h].sleeps = MaxRefusals
        /\ task[h].printed = 0

\* C19: the captured stdout and stderr are the streams without their trailing
\* newlines and otherwise unchanged; a command that copies its input to its
\* output gives a stdout equal to the input without its trailing newlines; and
\* empty streams with exit status 0 give empty texts and no error.
StripOf(captured, stream) ==
    \E k \in 0..Len(stream) :
        /\ captured = SubSeq(stream, 1, Len(stream) - k)
        /\ \A i \in (Len(stream) - k + 1)..Len(stream) : stream[i] = NL
        /\ (captured = <<>> \/ captured[Len(captured)] # NL)

CopiedInput(op) ==
    Executed(op) /\ req.input.given /\ op.rawout \in EchoDeliveries(req.input.text)

C19_CaptureKeepsTheText ==
    /\ \A op \in AllOps :
          Executed(op) =>
             /\ StripOf(op.stdout_output, op.rawout)
             /\ StripOf(op.stderr_output, op.rawerr)
             /\ (op.rawout = <<>> /\ op.rawerr = <<>> /\ op.exit_status = 0)
                    => (op.stdout_output = <<>> /\ op.stderr_output = <<>> /\ op.exc = NoExc)
    /\ \A h \in Hosts :
          CopiedInput(task[h]) => StripOf(task[h].stdout_output, req.input.text)

====
